---- MODULE Spec2Model ----
(***************************************************************************)
(* Session Router & Reconciliation Core of the support bot.                *)
(*                                                                         *)
(* Part 1: payment reconciliation.  A payment order is written to the      *)
(* ledger at payment initiation and reconciled by five entry points:       *)
(*   poll         GET /api/payment/status/{order_id}  check_payment_status *)
(*   return       GET /payment/return                 payment_return       *)
(*   cpoll        GET /api/cryptomus/payment/status   check_cryptomus_...  *)
(*   precheckout  Telegram Stars pre-checkout query                        *)
(*   stars        Telegram Stars successful-payment message                *)
(* The handlers are coroutines on one event loop: the code between two     *)
(* awaits runs atomically, so every action below is one such segment.      *)
(***************************************************************************)
EXTENDS Integers, Sequences, FiniteSets, TLC

\* ------------------------------------------------------------------ bounds
MaxRequests == 1      \* requests handled in one behaviour of Spec
MaxAttempts == 2      \* reconcile attempts in one behaviour of SpecRace
MaxRetries == 2       \* reconcile attempts in one behaviour of SpecSeq

\* ------------------------------------------------------------- universes
Users == {1, 2}                 \* telegram ids of the callers
Payers == {1}                   \* who links an account and pays; 2 only calls
NoUser == 0                     \* a callback that carries no sender identity
Uuids == {"s1", "s2"}           \* entitlement subjects on the backend
NoUuid == ""                    \* no row in user_backend_data
OrderIds == {"ord", "ghost"}    \* ids a request can name; "ghost" is never created
PlanDays == 30
Amount == 5
Now == 0                        \* datetime.now(), in days
\* expireAt of the backend user: an ISO timestamp with milliseconds, here the
\* number of days it denotes in a one-element sequence, or nothing.
NoExpiry == << >>

\* ------------------------------------------------- gateway status values
ORDER_STATUS_PRE_AUTH == 1
ORDER_STATUS_SUCCESS == 2
FINAL_SUCCESS_STATUSES == {"paid", "paid_over"}
FINAL_FAIL_STATUSES == {"fail", "cancel"}

\* What the gateway holds for an order, and what each gateway reports for it.
GwStates == {"new", "preauth", "success", "fail"}

BankCode(g) ==
    CASE g = "preauth" -> ORDER_STATUS_PRE_AUTH
      [] g = "success" -> ORDER_STATUS_SUCCESS
      [] g = "fail" -> 6     \* declined
      [] OTHER -> 0          \* registered, not paid

CryptoStatus(g) ==
    CASE g = "success" -> "paid"
      [] g = "fail" -> "fail"
      [] OTHER -> "process"

\* payment_gateway.is_order_paid: "return order_status in [PRE_AUTH, SUCCESS]"
is_order_paid(order_status) ==
    order_status \in {ORDER_STATUS_PRE_AUTH, ORDER_STATUS_SUCCESS}

\* cryptomus_client.is_payment_successful / is_payment_failed
is_payment_successful(status) == status \in FINAL_SUCCESS_STATUSES

is_payment_failed(status) == status \in FINAL_FAIL_STATUSES

\* The status payload a gateway call returned (status_data of the ledger).
NullPayload == [src |-> "null", code |-> -1, st |-> ""]

BankPayload(code) == [src |-> "bank", code |-> code, st |-> ""]

CryptoPayload(st) == [src |-> "crypto", code |-> -1, st |-> st]

StarsPayload == [src |-> "stars", code |-> -1, st |-> "XTR"]

VARIABLES
    orders,             \* the payment order ledger: order id -> order row
    user_backend_data,  \* local table telegram id -> linked uuid
    gw,                 \* the gateways' own state of each order
    subject,            \* the backend directory: uuid -> [status, expireAt]
    backendUp,          \* whether the backend answers calls
    attempts,           \* the reconcile requests: locals, position, history
    user_id_to_thread_id,   \* utils.user_id_to_thread_id, the in-memory map
    user_topics,        \* table user_topics_v2: user id -> thread id
    thread_states,      \* table thread_states: thread id -> status, archived, activity
    topics,             \* forum topics the platform has created so far
    support_msg_id_to_origin,   \* utils.support_msg_id_to_origin, in memory
    tasks               \* the bot's handler invocations and jobs: locals, position, history

paymentVars == <<orders, user_backend_data, gw, subject, backendUp, attempts>>

routerVars ==
    <<user_id_to_thread_id, user_topics, thread_states, topics,
      support_msg_id_to_origin, tasks>>

vars == <<paymentVars, routerVars>>

\* --------------------------------------------------------------- ledger
\* db_get_payment_order of an id with no row returns None.
NoOrder ==
    [found |-> FALSE, telegram_id |-> NoUser, uuid |-> NoUuid, amount |-> 0,
     currency |-> "", plan_days |-> 0, status |-> "", subscription_updated |-> FALSE,
     raw |-> NullPayload]

db_get_payment_order(order_id) ==
    IF order_id \in DOMAIN orders THEN orders[order_id] ELSE NoOrder

db_save_payment_order(ledger, order_id, telegram_id, uuid, currency) ==
    [o \in DOMAIN ledger \cup {order_id} |->
        IF o = order_id
        THEN [found |-> TRUE, telegram_id |-> telegram_id, uuid |-> uuid,
              amount |-> Amount, currency |-> currency, plan_days |-> PlanDays,
              status |-> "PENDING", subscription_updated |-> FALSE,
              raw |-> NullPayload]
        ELSE ledger[o]]

db_update_payment_order_status(ledger, order_id, status, status_data) ==
    IF order_id \in DOMAIN ledger
    THEN [ledger EXCEPT ![order_id].status = status, ![order_id].raw = status_data]
    ELSE ledger

db_mark_subscription_updated(ledger, order_id) ==
    IF order_id \in DOMAIN ledger
    THEN [ledger EXCEPT ![order_id].subscription_updated = TRUE]
    ELSE ledger

\* ============================================================ the router
\* Forum mode (SUPPORT_CHAT_ID is set): every user has a forum topic.
Clients == {1}          \* telegram ids of the users who write to the bot
NoThread == 0           \* no thread id: None
MaxTasks == 2           \* handler invocations in one behaviour
JobSlot == 0            \* the task of the repeating archive job

ThreadIds == 1..MaxTasks

\* db_get_thread_id: the thread of the user, or None when there is no row or
\* the read raised (the exception is logged and None returned).
DbGetThreadIdReplies(user_id) == {user_topics[user_id], NoThread}

db_set_thread_id(table, user_id, thread_id) == [table EXCEPT ![user_id] = thread_id]

\* db_get_user_id: the user whose row carries the thread, or None
db_get_user_id(thread_id) ==
    IF \E u \in Clients : user_topics[u] = thread_id
    THEN CHOOSE u \in Clients : user_topics[u] = thread_id
    ELSE NoUser

\* an upsert that keeps the status of an existing row
db_upsert_archived_only(table, thread_id, status, archived) ==
    [t \in DOMAIN table \cup {thread_id} |->
        IF t = thread_id
        THEN [status |-> IF t \in DOMAIN table THEN table[t].status ELSE status,
              archived |-> archived, stale |-> FALSE]
        ELSE table[t]]

\* db_upsert_thread_state: one statement writes status and archived and sets
\* last_activity to the current time.
db_upsert_thread_state(table, thread_id, status, archived) ==
    [t \in DOMAIN table \cup {thread_id} |->
        IF t = thread_id
        THEN [status |-> status, archived |-> archived, stale |-> FALSE]
        ELSE table[t]]

\* a touch that writes a time in the past
db_touch_backdates(table, thread_id) ==
    IF thread_id \in DOMAIN table
    THEN [table EXCEPT ![thread_id].stale = TRUE]
    ELSE table

\* a touch that also puts the thread back to active
db_touch_reactivates(table, thread_id) ==
    IF thread_id \in DOMAIN table
    THEN [table EXCEPT ![thread_id] =
            [status |-> "active", archived |-> FALSE, stale |-> FALSE]]
    ELSE table

\* a touch that writes nothing
db_touch_nothing(table, thread_id) == table

\* db_touch_activity: UPDATE ... SET last_activity=CURRENT_TIMESTAMP
db_touch_activity(table, thread_id) ==
    IF thread_id \in DOMAIN table
    THEN [table EXCEPT ![thread_id].stale = FALSE]
    ELSE table

\* "if archived or status != 'active'" on the row of db_get_thread_state
NeedsReopen(table, thread_id) ==
    /\ thread_id \in DOMAIN table
    /\ (table[thread_id].archived \/ table[thread_id].status # "active")

\* a scan that does not look at last_activity
ArchiveScanAnyAge(table) ==
    {t \in DOMAIN table : ~table[t].archived /\ table[t].status = "active"}

\* the rows of the archive scan: archived=0 AND status='active' AND
\* last_activity older than ARCHIVE_AFTER_HOURS
ArchiveScan(table) ==
    {t \in DOMAIN table :
        ~table[t].archived /\ table[t].status = "active" /\ table[t].stale}

\* A message in the support chat is named by the handler invocation that
\* posted it and by what it is: the platform gives every post its own id.
NoMsg == <<0, "none">>         \* message.reply_to_message is None
OtherMsg == <<0, "other">>     \* a message of the chat that the bot did not post
IndexedKinds == {"opened", "header", "copy", "forward", "text"}
ContentKinds == {"copy", "forward", "text", "notice"}

\* (origin chat id, origin message id); the private chat of a user has the
\* user's id, and the message of invocation i has id i
NoOrigin == <<0, 0>>
OriginOf(k, i) == <<k.user, i>>

EmptyIndex == [m \in {} |-> NoOrigin]

\* support_msg_id_to_origin[message_id] = (chat.id, message.message_id)
PutOrigin(index, msg, origin) ==
    [m \in DOMAIN index \cup {msg} |-> IF m = msg THEN origin ELSE index[m]]

\* support_msg_id_to_origin.get(replied_id)
GetOrigin(index, msg) == IF msg \in DOMAIN index THEN index[msg] ELSE NoOrigin

IdleTask ==
    [pc |-> "idle", kind |-> "none", user |-> NoUser, thread |-> NoThread,
     rows |-> {}, recorded |-> NoThread, called_create |-> FALSE,
     result |-> NoThread, raced |-> FALSE, close_failed |-> {},
     closed |-> {}, again |-> {}, fresh |-> {}, prompted |-> {},
     posted |-> {}, failed |-> {}, ref |-> NoMsg, to |-> NoOrigin,
     forum |-> TRUE, hours |-> 1]

TaskSlots == DOMAIN tasks

RouterInitWith(slots) ==
    /\ user_id_to_thread_id = [u \in Clients |-> NoThread]
    /\ user_topics = [u \in Clients |-> NoThread]
    /\ thread_states = << >>
    /\ topics = 0
    /\ support_msg_id_to_origin = EmptyIndex
    /\ tasks = [i \in {JobSlot} \cup 1..slots |-> IdleTask]

\* the payment specifications leave the router at rest
RouterInit == RouterInitWith(0)

\* ------------------------------------------------------------- attempts
Slots == DOMAIN attempts

Idle ==
    [pc |-> "idle", ep |-> "none", oid |-> "", caller |-> NoUser,
     payment_order |-> NoOrder, order_status |-> NullPayload, status_code |-> -1,
     is_paid |-> FALSE, expire_at |-> 0,
     wrote |-> FALSE, gw_calls |-> 0, upd |-> "none", uuid_check |-> "none",
     marked |-> FALSE, down_seen |-> FALSE, raced |-> FALSE,
     outcome |-> "none", resp |-> ""]

InitWith(slots) ==
    /\ orders = << >>
    /\ user_backend_data = [t \in Users |-> NoUuid]
    /\ gw = [o \in OrderIds |-> "new"]
    /\ subject = [u \in Uuids |-> [status |-> "DISABLED", expireAt |-> <<Now>>]]
    /\ backendUp = TRUE
    /\ attempts = [i \in 1..slots |-> Idle]
    /\ RouterInit

Init == InitWith(MaxRequests)

InitRace == InitWith(MaxAttempts)

InitSeq == InitWith(MaxRetries)

\* The backend knows the subjects before the bot does: in any status, with a
\* past expiry, a future one, or none.
SubjectStates ==
    [status : {"ACTIVE", "EXPIRED", "DISABLED"},
     expireAt : {NoExpiry, <<Now - PlanDays>>, <<Now + PlanDays>>}]

InitExpiry ==
    /\ orders = << >>
    /\ user_backend_data = [t \in Users |-> NoUuid]
    /\ gw = [o \in OrderIds |-> "new"]
    /\ subject \in [Uuids -> SubjectStates]
    /\ \A u \in Uuids \ {"s1"} : subject[u] = [status |-> "DISABLED", expireAt |-> NoExpiry]
    /\ backendUp = TRUE
    /\ attempts = [i \in 1..MaxRequests |-> Idle]
    /\ RouterInit

\* The payer is linked to subject s1, which is ACTIVE, and has started two
\* payments: a bank order and a Cryptomus order, each for a plan of its own.
StackOrders == {"ord", "ord2"}

StackPlans == {PlanDays, PlanDays + PlanDays}

StackExpiry == Now + PlanDays

StackCurrency(o) == IF o = "ord" THEN "kzt" ELSE "crypto"

InitStack ==
    /\ \E d1 \in StackPlans, d2 \in StackPlans :
          orders = [o \in StackOrders |->
                      [db_save_payment_order(<< >>, o, 1, "s1", StackCurrency(o))[o]
                          EXCEPT !.plan_days = IF o = "ord" THEN d1 ELSE d2]]
    /\ user_backend_data = [t \in Users |-> IF t \in Payers THEN "s1" ELSE NoUuid]
    /\ gw = [o \in StackOrders |-> "new"]
    /\ subject = [u \in Uuids |->
                    IF u = "s1"
                    THEN [status |-> "ACTIVE", expireAt |-> <<StackExpiry>>]
                    ELSE [status |-> "DISABLED", expireAt |-> NoExpiry]]
    /\ backendUp = TRUE
    /\ attempts = [i \in 1..MaxAttempts |-> Idle]
    /\ RouterInit

\* ------------------------------------------------------ the early checks
\* The early checks as a handler that forgets them would make them.
OrderFoundAlways(payment_order) == TRUE

OwnerMatchesAlways(payment_order, telegram_id) == TRUE

\* "if not payment_order:" of every entry point
OrderFound(payment_order) == payment_order.found

\* "if payment_order.get('telegram_id') != telegram_id:" of the HTTP entry points
OwnerMatches(payment_order, telegram_id) == payment_order.telegram_id = telegram_id

\* "if user_id and payment_order.get('telegram_id') != user_id:" of the Stars
\* handlers, negated: the comparison is skipped when user_id is None.
StarsOwnerOk(payment_order, user_id) ==
    ~(user_id # NoUser /\ payment_order.telegram_id # user_id)

\* "elif payment_order.get('uuid') and payment_order.get('plan_days'):"
HasPlanData(payment_order) ==
    payment_order.uuid # NoUuid /\ payment_order.plan_days # 0

\* "is_crypto_payment = payment_currency in crypto_currencies" of payment_return
is_crypto_payment(payment_order) ==
    payment_order.currency \in {"crypto", "usdt", "ton", "eth", "btc"}

\* What each entry point answers when it returns from its early checks.
NotFoundResponse(ep) ==
    CASE ep = "stars" -> "return"
      [] ep = "precheckout" -> "ok=False: Order not found"
      [] OTHER -> "404"

NotOwnerResponse(ep) ==
    CASE ep = "stars" -> "return"
      [] ep = "precheckout" -> "ok=False: This payment does not belong to you"
      [] OTHER -> "403"

\* A slot is taken in order, so that permuted runs are one run.
CanStart(i) ==
    /\ attempts[i].pc = "idle"
    /\ IF i = 1 THEN TRUE ELSE attempts[i - 1].pc # "idle"

Begin(ep, o, c) ==
    [Idle EXCEPT !.ep = ep, !.oid = o, !.caller = c,
                 !.payment_order = db_get_payment_order(o)]

\* The handler returns: its locals are gone, what it did stays on record.
Done(a, outcome, resp) ==
    [a EXCEPT !.pc = "done", !.outcome = outcome, !.resp = resp,
              !.order_status = NullPayload, !.expire_at = 0]

InFlight(a) == a.pc \notin {"idle", "done"}

\* Attempt i goes on as b; attempts of one order that overlap in time are
\* marked as raced.
Enter(i, b) ==
    [j \in Slots |->
        IF j = i
        THEN [b EXCEPT !.down_seen = ~backendUp, !.raced =
                \E k \in Slots \ {i} : InFlight(attempts[k]) /\ attempts[k].oid = b.oid]
        ELSE IF InFlight(attempts[j]) /\ attempts[j].oid = b.oid
        THEN [attempts[j] EXCEPT !.raced = TRUE]
        ELSE attempts[j]]

Finish(i, a, ledger, outcome, resp) ==
    /\ attempts' = [attempts EXCEPT ![i] = Done(a, outcome, resp)]
    /\ orders' = ledger

\* ------------------------------------------------- creation and linking
NextOrderId == "ord"

\* verify_otp: the telegram id is linked to the backend user of the e-mail.
verify_otp(t, u) ==
    /\ user_backend_data' = [user_backend_data EXCEPT ![t] = u]
    /\ UNCHANGED <<orders, gw, subject, backendUp, attempts, routerVars>>

\* Payment initiation that would reuse the id of an order already in the ledger.
CreateOrderAgain(t, currency) ==
    /\ user_backend_data[t] # NoUuid
    /\ orders' = db_save_payment_order(orders, NextOrderId, t, user_backend_data[t],
                                        currency)
    /\ UNCHANGED <<user_backend_data, gw, subject, backendUp, attempts, routerVars>>

CreateOrder(t, currency) ==
    /\ NextOrderId \notin DOMAIN orders
    /\ user_backend_data[t] # NoUuid
    /\ orders' = db_save_payment_order(orders, NextOrderId, t, user_backend_data[t],
                                        currency)
    /\ UNCHANGED <<user_backend_data, gw, subject, backendUp, attempts, routerVars>>

create_payment(t) == CreateOrder(t, "kzt")

create_cryptomus_payment(t) == CreateOrder(t, "crypto")

create_stars_payment(t) == CreateOrder(t, "stars")

\* ---------------------------------------------------------- environment
\* The payer acts at the gateway: the bank authorizes (pre-auth), settles or
\* declines; Cryptomus reports paid or fail.
GatewayAdvance(o) ==
    /\ o \in DOMAIN orders
    /\ orders[o].currency # "stars"
    /\ gw[o] = "new"
    /\ \E g \in {"preauth", "success", "fail"} :
        /\ g = "preauth" => orders[o].currency = "kzt"
        /\ gw' = [gw EXCEPT ![o] = g]
    /\ UNCHANGED <<orders, user_backend_data, subject, backendUp, attempts, routerVars>>

BackendFlip ==
    /\ backendUp' = ~backendUp
    /\ attempts' = [i \in Slots |->
                      IF backendUp /\ InFlight(attempts[i])
                      THEN [attempts[i] EXCEPT !.down_seen = TRUE]
                      ELSE attempts[i]]
    /\ UNCHANGED <<orders, user_backend_data, gw, subject, routerVars>>

\* ------------------------------------------------------ gateway replies
\* get_order_status returns the payload, or None on an HTTP or gateway error;
\* the bank does not know an order of another gateway.
GetOrderStatusReplies(o) ==
    {NullPayload} \cup
    (IF o \in DOMAIN orders /\ orders[o].currency = "kzt"
     THEN {BankPayload(BankCode(gw[o]))} ELSE {})

\* cryptomus_client.get_payment_info, likewise
GetPaymentInfoReplies(o) ==
    {NullPayload} \cup
    (IF o \in DOMAIN orders /\ orders[o].currency = "crypto"
     THEN {CryptoPayload(CryptoStatus(gw[o]))} ELSE {})

\* ------------------------------------ update_user_subscription_after_payment
\* The new expiry: stacked on the current one for an ACTIVE subject, counted
\* from now otherwise.
\* A datetime: the instant at the resolution of the wire format, and whether
\* it carries a part below that resolution.
isoparse(expire_at) == [t |-> expire_at[1], sub_ms |-> FALSE]

datetime_now == [t |-> Now, sub_ms |-> TRUE]

add_days(d, days) == [d EXCEPT !.t = @ + days]

\* strftime('%Y-%m-%dT%H:%M:%S.%f')[:-3] + 'Z': what is below a millisecond is cut
strftime_ms(d) == d.t

\* An update that would stack the plan on whatever expiry the subject carries.
NewExpireAtStacked(user_data, plan_days) ==
    strftime_ms(IF user_data.expireAt # NoExpiry
                THEN add_days(isoparse(user_data.expireAt), plan_days)
                ELSE add_days(datetime_now, plan_days))

NewExpireAt(user_data, plan_days) ==
    strftime_ms(IF user_data.status = "ACTIVE" /\ user_data.expireAt # NoExpiry
                THEN add_days(isoparse(user_data.expireAt), plan_days)
                ELSE add_days(datetime_now, plan_days))

\* The handler calls update_user_subscription_after_payment: the coroutine
\* runs to its first await, get_user_by_uuid.
CallSubscriptionUpdate(i, a, ledger) ==
    /\ attempts' = [attempts EXCEPT ![i] = [a EXCEPT !.pc = "get_user"]]
    /\ orders' = ledger

\* update_user_subscription_after_payment has returned (it returns None on
\* every path and lets no exception out): the handler marks the order.
AfterSubscriptionUpdate(i, a) ==
    Finish(i, [a EXCEPT !.marked = TRUE],
           db_mark_subscription_updated(orders, a.oid), "applied",
           IF a.ep = "poll" /\ a.order_status = NullPayload THEN "500" ELSE "200")

\* get_user_by_uuid answers.
get_user_reply(i) ==
    LET a == attempts[i] IN
    /\ a.pc = "get_user"
    /\ IF backendUp
       THEN /\ attempts' = [attempts EXCEPT ![i] =
                  [a EXCEPT !.pc = "update", !.upd = "sent",
                            !.expire_at = NewExpireAt(subject[a.payment_order.uuid],
                                                      a.payment_order.plan_days)]]
            /\ UNCHANGED orders
       ELSE AfterSubscriptionUpdate(i, [a EXCEPT !.upd = "lookup_failed"])
    /\ UNCHANGED <<user_backend_data, gw, subject, backendUp, routerVars>>

\* update_user_subscription answers.
update_reply(i) ==
    LET a == attempts[i] IN
    /\ a.pc = "update"
    /\ IF backendUp
       THEN /\ subject' = [subject EXCEPT ![a.payment_order.uuid] =
                              [status |-> "ACTIVE", expireAt |-> <<a.expire_at>>]]
            /\ AfterSubscriptionUpdate(i, [a EXCEPT !.upd = "ok"])
       ELSE /\ UNCHANGED subject
            /\ AfterSubscriptionUpdate(i, [a EXCEPT !.upd = "failed"])
    /\ UNCHANGED <<user_backend_data, gw, backendUp, routerVars>>

\* ------------------------------- check_payment_status and payment_return
\* From the ledger write to the end of the handler, or to its next await.
ReconcileChecked(i, a, status) ==
    LET ledger == db_update_payment_order_status(orders, a.oid, status, a.order_status)
        w == [a EXCEPT !.wrote = TRUE]
        link == user_backend_data[a.caller]
        resp == IF a.ep = "poll" /\ a.order_status = NullPayload THEN "500" ELSE "200"
    IN  IF ~a.is_paid THEN Finish(i, w, ledger, "skipped", resp)
        ELSE IF ~OwnerMatches(a.payment_order, a.caller)
        THEN Finish(i, w, ledger, "rejected", "403")
        ELSE IF link = NoUuid THEN Finish(i, w, ledger, "rejected", "404")
        ELSE IF a.payment_order.uuid # link
        THEN Finish(i, [w EXCEPT !.uuid_check = "fail"], ledger, "rejected", "403")
        ELSE IF a.payment_order.subscription_updated
        THEN Finish(i, [w EXCEPT !.uuid_check = "pass"], ledger, "skipped", resp)
        ELSE IF HasPlanData(a.payment_order)
        THEN CallSubscriptionUpdate(i, [w EXCEPT !.uuid_check = "pass"], ledger)
        ELSE Finish(i, [w EXCEPT !.uuid_check = "pass"], ledger, "skipped", resp)

BankLedgerStatus(is_paid) == IF is_paid THEN "PAID" ELSE "FAILED"

\* A handler that would capture whatever status it observed.
NeedsDepositAlways(status_code) == TRUE

\* "if status_code == payment_gateway.ORDER_STATUS_PRE_AUTH:"
NeedsDeposit(status_code) == status_code = ORDER_STATUS_PRE_AUTH

\* The synchronous head of check_payment_status.
check_payment_status(i, o, c) ==
    LET a == Begin("poll", o, c) IN
    /\ CanStart(i)
    /\ attempts' =
          IF ~OrderFound(a.payment_order)
          THEN [attempts EXCEPT ![i] = Done(a, "rejected", NotFoundResponse("poll"))]
          ELSE IF ~OwnerMatches(a.payment_order, c)
          THEN [attempts EXCEPT ![i] = Done(a, "rejected", NotOwnerResponse("poll"))]
          ELSE Enter(i, [a EXCEPT !.pc = "status", !.gw_calls = 1])
    /\ UNCHANGED <<orders, user_backend_data, gw, subject, backendUp, routerVars>>

\* The synchronous head of payment_return.
payment_return(i, o, c) ==
    LET a == Begin("return", o, c) IN
    /\ CanStart(i)
    /\ attempts' =
          IF ~OrderFound(a.payment_order)
          THEN [attempts EXCEPT ![i] = Done(a, "rejected", NotFoundResponse("return"))]
          ELSE IF ~OwnerMatches(a.payment_order, c)
          THEN [attempts EXCEPT ![i] = Done(a, "rejected", NotOwnerResponse("return"))]
          ELSE IF is_crypto_payment(a.payment_order)
          THEN Enter(i, [a EXCEPT !.pc = "info", !.gw_calls = 1])
          ELSE Enter(i, [a EXCEPT !.pc = "status", !.gw_calls = 1])
    /\ UNCHANGED <<orders, user_backend_data, gw, subject, backendUp, routerVars>>

\* get_order_status answers the first query.
bank_status_reply(i) ==
    LET a == attempts[i] IN
    /\ a.pc = "status"
    /\ \E order_status \in GetOrderStatusReplies(a.oid) :
        IF order_status = NullPayload
        THEN Finish(i, a, orders, "error", "500")
        ELSE LET b == [a EXCEPT !.order_status = order_status,
                                !.status_code = order_status.code,
                                !.is_paid = is_order_paid(order_status.code)]
             IN  IF NeedsDeposit(b.status_code)
                 THEN /\ attempts' = [attempts EXCEPT ![i] =
                            [b EXCEPT !.pc = "deposit", !.gw_calls = 2]]
                      /\ UNCHANGED orders
                 ELSE ReconcileChecked(i, b, BankLedgerStatus(b.is_paid))
    /\ UNCHANGED <<user_backend_data, gw, subject, backendUp, routerVars>>

\* deposit_order answers: the capture is done, or the call failed.
bank_deposit_reply(i) ==
    LET a == attempts[i] IN
    /\ a.pc = "deposit"
    /\ \/ /\ gw[a.oid] = "preauth"
          /\ gw' = [gw EXCEPT ![a.oid] = "success"]
          /\ attempts' = [attempts EXCEPT ![i] =
                [a EXCEPT !.pc = "status2", !.gw_calls = 3]]
          /\ UNCHANGED orders
       \/ /\ UNCHANGED gw
          /\ ReconcileChecked(i, a, BankLedgerStatus(a.is_paid))
    /\ UNCHANGED <<user_backend_data, subject, backendUp, routerVars>>

\* get_order_status answers the query made after the capture.
bank_status2_reply(i) ==
    LET a == attempts[i] IN
    /\ a.pc = "status2"
    /\ \E order_status \in GetOrderStatusReplies(a.oid) :
        LET b == IF order_status = NullPayload
                 THEN [a EXCEPT !.order_status = NullPayload]
                 ELSE [a EXCEPT !.order_status = order_status,
                                !.status_code = order_status.code,
                                !.is_paid = is_order_paid(order_status.code)]
        IN  ReconcileChecked(i, b, BankLedgerStatus(b.is_paid))
    /\ UNCHANGED <<user_backend_data, gw, subject, backendUp, routerVars>>

\* ------------------------------------- check_cryptomus_payment_status
check_cryptomus_payment_status(i, o, c) ==
    LET a == Begin("cpoll", o, c) IN
    /\ CanStart(i)
    /\ attempts' =
          IF ~OrderFound(a.payment_order)
          THEN [attempts EXCEPT ![i] = Done(a, "rejected", NotFoundResponse("cpoll"))]
          ELSE IF ~OwnerMatches(a.payment_order, c)
          THEN [attempts EXCEPT ![i] = Done(a, "rejected", NotOwnerResponse("cpoll"))]
          ELSE Enter(i, [a EXCEPT !.pc = "info", !.gw_calls = 1])
    /\ UNCHANGED <<orders, user_backend_data, gw, subject, backendUp, routerVars>>

\* From the ledger write of check_cryptomus_payment_status on.
ReconcileCryptomus(i, a) ==
    LET ledger == db_update_payment_order_status(orders, a.oid, a.order_status.st,
                                                 a.order_status)
        w == [a EXCEPT !.wrote = TRUE]
    IN  IF a.is_paid /\ ~a.payment_order.subscription_updated
                     /\ HasPlanData(a.payment_order)
        THEN CallSubscriptionUpdate(i, w, ledger)
        ELSE Finish(i, w, ledger, "skipped", "200")

\* get_payment_info answers (payment_return of a crypto order, or the poll).
cryptomus_info_reply(i) ==
    LET a == attempts[i] IN
    /\ a.pc = "info"
    /\ \E payment_info \in GetPaymentInfoReplies(a.oid) :
        IF payment_info = NullPayload
        THEN Finish(i, a, orders, "error", "500")
        ELSE LET b == [a EXCEPT !.order_status = payment_info,
                                !.is_paid = is_payment_successful(payment_info.st)]
             IN  IF a.ep = "return"
                 THEN ReconcileChecked(i, b, payment_info.st)
                 ELSE ReconcileCryptomus(i, b)
    /\ UNCHANGED <<user_backend_data, gw, subject, backendUp, routerVars>>

\* ------------------------------------------------------ Telegram Stars
\* handle_pre_checkout_query: every path ends in query.answer.
handle_pre_checkout_query(i, o, c, currency, total_amount) ==
    LET a == Begin("precheckout", o, c)
        po == a.payment_order
    IN
    /\ CanStart(i)
    /\ attempts' = [attempts EXCEPT ![i] =
          IF ~OrderFound(po) THEN Done(a, "rejected", NotFoundResponse("precheckout"))
          ELSE IF ~StarsOwnerOk(po, c)
          THEN Done(a, "rejected", NotOwnerResponse("precheckout"))
          ELSE IF currency # "XTR" THEN Done(a, "rejected", "ok=False: Invalid currency")
          ELSE IF total_amount # po.amount * 100
          THEN Done(a, "rejected", "ok=False: Invalid amount")
          ELSE Done(a, "approved", "ok=True")]
    /\ UNCHANGED <<orders, user_backend_data, gw, subject, backendUp, routerVars>>

\* handle_successful_payment.  "from miniapp_server import
\* update_user_subscription_after_payment" names a function local to
\* create_app, so the import raises ImportError inside the try: the backend
\* is not called and the order is not marked.
handle_successful_payment(i, o, c) ==
    LET a == Begin("stars", o, c)
        po == a.payment_order
        paid == [a EXCEPT !.is_paid = TRUE, !.wrote = TRUE]
    IN
    /\ CanStart(i)
    /\ IF ~OrderFound(po) THEN Finish(i, a, orders, "rejected", NotFoundResponse("stars"))
       ELSE IF ~StarsOwnerOk(po, c)
       THEN Finish(i, a, orders, "rejected", NotOwnerResponse("stars"))
       ELSE IF po.subscription_updated
       THEN /\ attempts' = Enter(i, Done([a EXCEPT !.is_paid = TRUE], "skipped", "return"))
            /\ UNCHANGED orders
       ELSE /\ attempts' = Enter(i, Done(paid, "error", "return"))
            /\ orders' = db_update_payment_order_status(orders, o, "PAID", StarsPayload)
    /\ UNCHANGED <<user_backend_data, gw, subject, backendUp, routerVars>>

\* ------------------------------------------------------- router tasks
HandlerSlots == DOMAIN tasks \ {JobSlot}

TaskCanStart(i) ==
    /\ i # JobSlot
    /\ tasks[i].pc = "idle"
    /\ IF i = 1 THEN TRUE ELSE tasks[i - 1].pc # "idle"

TaskInFlight(k) == k.pc \notin {"idle", "done"}

TaskDone(k) == [k EXCEPT !.pc = "done", !.rows = {}]

\* past its last write of the router tables: telling the operators of a
\* failed creation, or relaying the content
InRelay(k) == k.pc \in {"notify", "header", "copy", "forward", "note"}

InEnsure(k) == k.pc \in {"create", "greet"}

SetTask(i, k) == [tasks EXCEPT ![i] = k]

\* After ensure_forum_topic_for_user returned thread_id the handler reads the
\* thread state and either awaits the reopen call or touches the activity and
\* goes on to relay the content.
AfterEnsure(i, k, thread_id) ==
    LET k1 == [k EXCEPT !.thread = thread_id, !.result = thread_id] IN
    IF NeedsReopen(thread_states, thread_id)
    THEN /\ tasks' = SetTask(i, [k1 EXCEPT !.pc = "reopen"])
         /\ UNCHANGED thread_states
    ELSE /\ tasks' = SetTask(i, [k1 EXCEPT !.pc = "header"])
         /\ thread_states' = db_touch_activity(thread_states, thread_id)

\* A private message of user u: ensure_forum_topic_for_user up to its first
\* await looks in the in-memory map, then in the database, then calls
\* create_forum_topic.
handle_incoming_from_user(i, u) ==
    LET k == [IdleTask EXCEPT !.kind = "message", !.user = u,
                              !.recorded = user_topics[u]]
    IN
    /\ TaskCanStart(i)
    /\ UNCHANGED <<paymentVars, support_msg_id_to_origin, user_topics, topics>>
    /\ IF user_id_to_thread_id[u] # NoThread
       THEN /\ AfterEnsure(i, k, user_id_to_thread_id[u])
            /\ UNCHANGED user_id_to_thread_id
       ELSE \E cached \in DbGetThreadIdReplies(u) :
              IF cached # NoThread
              THEN /\ user_id_to_thread_id' = [user_id_to_thread_id EXCEPT ![u] = cached]
                   /\ AfterEnsure(i, k, cached)
              ELSE /\ tasks' =
                        [j \in DOMAIN tasks |->
                           IF j = i
                           THEN [k EXCEPT !.pc = "create", !.called_create = TRUE,
                                          !.raced = \E x \in DOMAIN tasks :
                                              x # i /\ InEnsure(tasks[x]) /\ tasks[x].user = u]
                           ELSE IF InEnsure(tasks[j]) /\ tasks[j].user = u
                                THEN [tasks[j] EXCEPT !.raced = TRUE]
                                ELSE tasks[j]]
                   /\ UNCHANGED <<user_id_to_thread_id, thread_states>>

\* create_forum_topic answers: a new topic, recorded in the map and in both
\* tables before the header is sent; or an exception, and the except branch
\* goes on to tell the operators. db_set_thread_id stores the row or not
\* (stored); the map is written before it either way.
create_forum_topic_answers(i, stored) ==
    LET k == tasks[i]
        thread_id == topics + 1
    IN
    /\ k.pc = "create"
    /\ UNCHANGED <<paymentVars, support_msg_id_to_origin>>
    /\ \/ /\ topics' = thread_id
          /\ user_id_to_thread_id' = [user_id_to_thread_id EXCEPT ![k.user] = thread_id]
          /\ user_topics' = IF stored
                            THEN db_set_thread_id(user_topics, k.user, thread_id)
                            ELSE user_topics
          /\ thread_states' = db_upsert_thread_state(thread_states, thread_id, "active", FALSE)
          /\ tasks' = SetTask(i, [k EXCEPT !.pc = "greet", !.thread = thread_id])
       \/ /\ tasks' = SetTask(i, [k EXCEPT !.pc = "notify", !.failed = @ \cup {"create"}])
          /\ UNCHANGED <<user_id_to_thread_id, user_topics, thread_states, topics>>

\* the reply when the store takes the write
create_forum_topic_reply(i) == create_forum_topic_answers(i, TRUE)

\* the reply when the store takes the write or the write raises inside
\* db_set_thread_id, which logs the exception and returns
create_forum_topic_reply_any(i) ==
    \E stored \in BOOLEAN : create_forum_topic_answers(i, stored)

\* the header message of the new topic is sent and indexed, or send_message
\* raises and the except branch is taken although the topic is recorded
greet_reply(i) ==
    LET k == tasks[i] IN
    /\ k.pc = "greet"
    /\ UNCHANGED <<paymentVars, user_id_to_thread_id, user_topics, topics>>
    /\ \/ /\ support_msg_id_to_origin' =
                PutOrigin(support_msg_id_to_origin, <<i, "opened">>, OriginOf(k, i))
          /\ AfterEnsure(i, [k EXCEPT !.posted = @ \cup {"opened"}], k.thread)
       \/ /\ tasks' = SetTask(i, [k EXCEPT !.pc = "notify", !.failed = @ \cup {"opened"}])
          /\ UNCHANGED <<thread_states, support_msg_id_to_origin>>

\* the except branch of ensure_forum_topic_for_user: a message to the
\* operators in the support chat, whose failure is ignored; None is returned
\* and the handler returns
notify_reply(i) ==
    LET k == tasks[i] IN
    /\ k.pc = "notify"
    /\ \E notified \in BOOLEAN :
         tasks' = SetTask(i, TaskDone(IF notified
                                      THEN [k EXCEPT !.posted = @ \cup {"create_failed"}]
                                      ELSE k))
    /\ UNCHANGED <<paymentVars, support_msg_id_to_origin, user_id_to_thread_id,
                   user_topics, thread_states, topics>>

\* a reopen that writes the state only when the platform call succeeded
AutoReopenStateIfOk(table, thread_id, reopened) ==
    IF reopened
    THEN db_upsert_thread_state(table, thread_id, "active", FALSE)
    ELSE table

\* the state a user message writes for a thread it found closed, whatever
\* reopen_forum_topic answered
AutoReopenState(table, thread_id, reopened) ==
    db_upsert_thread_state(table, thread_id, "active", FALSE)

\* reopen_forum_topic answered or raised: the state is written either way, the
\* activity touched, and the handler goes on to relay
reopen_reply(i) ==
    LET k == tasks[i] IN
    /\ k.pc = "reopen"
    /\ \E reopened \in BOOLEAN :
         /\ thread_states' = db_touch_activity(
                                 AutoReopenState(thread_states, k.thread, reopened),
                                 k.thread)
         /\ tasks' = SetTask(i, [k EXCEPT !.pc = "header",
                                          !.failed = IF reopened THEN @ ELSE @ \cup {"reopen"}])
    /\ UNCHANGED <<paymentVars, support_msg_id_to_origin, user_id_to_thread_id, user_topics, topics>>

\* A post of the relay succeeded: it is indexed under the origin of the
\* inbound message.
Indexed(i, kind) ==
    PutOrigin(support_msg_id_to_origin, <<i, kind>>, OriginOf(tasks[i], i))

RelayUnchanged == UNCHANGED <<paymentVars, user_id_to_thread_id, user_topics, thread_states, topics>>

\* "Новое сообщение от: ..." is posted in the thread, or send_message raises
\* and the handler ends
header_reply(i) ==
    LET k == tasks[i] IN
    /\ k.pc = "header"
    /\ RelayUnchanged
    /\ \/ /\ support_msg_id_to_origin' = Indexed(i, "header")
          /\ tasks' = SetTask(i, [k EXCEPT !.pc = "copy", !.posted = @ \cup {"header"}])
       \/ /\ tasks' = SetTask(i, TaskDone([k EXCEPT !.failed = @ \cup {"header"}]))
          /\ UNCHANGED support_msg_id_to_origin

\* copy_message answered, or raised and forward_message is tried
copy_reply(i) ==
    LET k == tasks[i] IN
    /\ k.pc = "copy"
    /\ RelayUnchanged
    /\ \/ /\ support_msg_id_to_origin' = Indexed(i, "copy")
          /\ tasks' = SetTask(i, TaskDone([k EXCEPT !.posted = @ \cup {"copy"}]))
       \/ /\ tasks' = SetTask(i, [k EXCEPT !.pc = "forward", !.failed = @ \cup {"copy"}])
          /\ UNCHANGED support_msg_id_to_origin

\* forward_message answered, or raised and the last resort is tried
forward_reply(i) ==
    LET k == tasks[i] IN
    /\ k.pc = "forward"
    /\ RelayUnchanged
    /\ \/ /\ support_msg_id_to_origin' = Indexed(i, "forward")
          /\ tasks' = SetTask(i, TaskDone([k EXCEPT !.posted = @ \cup {"forward"}]))
       \/ /\ tasks' = SetTask(i, [k EXCEPT !.pc = "note", !.failed = @ \cup {"forward"}])
          /\ UNCHANGED support_msg_id_to_origin

\* the last resort: the text of the message, indexed, or a notice that the
\* message could not be shown, not indexed; when send_message raises the
\* handler ends
note_reply(i) ==
    LET k == tasks[i] IN
    /\ k.pc = "note"
    /\ RelayUnchanged
    /\ \/ \E has_text \in BOOLEAN :
            IF has_text
            THEN /\ support_msg_id_to_origin' = Indexed(i, "text")
                 /\ tasks' = SetTask(i, TaskDone([k EXCEPT !.posted = @ \cup {"text"}]))
            ELSE /\ tasks' = SetTask(i, TaskDone([k EXCEPT !.posted = @ \cup {"notice"}]))
                 /\ UNCHANGED support_msg_id_to_origin
       \/ /\ tasks' = SetTask(i, TaskDone([k EXCEPT !.failed = @ \cup {"note"}]))
          /\ UNCHANGED support_msg_id_to_origin

\* The write of closed/archived=1 by task k on thread_id, with what the row
\* held just before the write.
CloseWrite(k, thread_id) ==
    LET row == thread_states[thread_id] IN
    [k EXCEPT !.closed = @ \cup {thread_id},
              !.again = @ \cup (IF row.status = "closed" THEN {thread_id} ELSE {}),
              !.fresh = @ \cup (IF k.kind = "sweep" /\ row.status = "active" /\ ~row.stale
                                THEN {thread_id} ELSE {})]

Prompted(k, thread_id) ==
    IF db_get_user_id(thread_id) # NoUser
    THEN [k EXCEPT !.prompted = @ \cup {thread_id}]
    ELSE k

\* an operator presses "close:<thread_id>" on a message of the topic
close_pressed(i, thread_id) ==
    /\ TaskCanStart(i)
    /\ thread_id \in DOMAIN thread_states
    /\ tasks' = SetTask(i, [IdleTask EXCEPT !.kind = "close", !.pc = "closing",
                                            !.thread = thread_id])
    /\ UNCHANGED <<paymentVars, support_msg_id_to_origin, user_id_to_thread_id, user_topics, thread_states, topics>>

\* close_forum_topic and the answer to the callback query have returned. An
\* answer that raises inside the try block is tried again in the except block;
\* when the one in the except block raises the handler ends there.
close_reply(i) ==
    LET k == tasks[i] IN
    /\ k.pc = "closing"
    /\ UNCHANGED <<paymentVars, support_msg_id_to_origin, user_id_to_thread_id, user_topics, topics>>
    /\ \E close_ok \in BOOLEAN, answered \in BOOLEAN :
         LET k1 == IF close_ok THEN k
                   ELSE [k EXCEPT !.close_failed = @ \cup {k.thread}]
         IN
         IF ~answered
         THEN /\ tasks' = SetTask(i, TaskDone(k1))
              /\ UNCHANGED thread_states
         ELSE /\ thread_states' =
                    db_upsert_thread_state(thread_states, k.thread, "closed", TRUE)
              /\ tasks' = SetTask(i, [CloseWrite(k1, k.thread) EXCEPT !.pc = "markup"])

\* edit_reply_markup returned (its failure is ignored); the rating message
\* goes to the user of the thread
markup_reply(i) ==
    LET k == tasks[i] IN
    /\ k.pc = "markup"
    /\ tasks' = SetTask(i, TaskDone(Prompted(k, k.thread)))
    /\ UNCHANGED <<paymentVars, support_msg_id_to_origin, user_id_to_thread_id, user_topics, thread_states, topics>>

\* an operator presses "open:<thread_id>"
open_pressed(i, thread_id) ==
    /\ TaskCanStart(i)
    /\ thread_id \in DOMAIN thread_states
    /\ tasks' = SetTask(i, [IdleTask EXCEPT !.kind = "open", !.pc = "opening",
                                            !.thread = thread_id])
    /\ UNCHANGED <<paymentVars, support_msg_id_to_origin, user_id_to_thread_id, user_topics, thread_states, topics>>

\* reopen_forum_topic answered: the state is written only when it succeeded
open_reply(i) ==
    LET k == tasks[i] IN
    /\ k.pc = "opening"
    /\ tasks' = SetTask(i, TaskDone(k))
    /\ \E reopened \in BOOLEAN :
         thread_states' = IF reopened
                          THEN db_upsert_thread_state(thread_states, k.thread, "active", FALSE)
                          ELSE thread_states
    /\ UNCHANGED <<paymentVars, support_msg_id_to_origin, user_id_to_thread_id, user_topics, topics>>

\* the archive job runs again once its last run has ended. Under a
\* configuration without a support chat (forum_mode is FALSE) or with
\* ARCHIVE_AFTER_HOURS <= 0 it returns at once; otherwise it reads the stale
\* active threads and starts on the first. The run keeps the configuration
\* it was started under.
archive_job_configured(forum_mode, archive_after_hours) ==
    LET rows == IF ~forum_mode \/ archive_after_hours <= 0
                THEN {}
                ELSE ArchiveScan(thread_states)
        k == [IdleTask EXCEPT !.kind = "sweep", !.forum = forum_mode,
                              !.hours = archive_after_hours]
    IN
    /\ ~TaskInFlight(tasks[JobSlot])
    /\ tasks' = SetTask(JobSlot, IF rows = {}
                           THEN TaskDone(k)
                           ELSE [k EXCEPT !.pc = "sweep", !.rows = rows])
    /\ UNCHANGED <<paymentVars, support_msg_id_to_origin, user_id_to_thread_id, user_topics, thread_states, topics>>

\* the job of a bot in forum mode with a positive threshold
archive_inactive_topics_job == archive_job_configured(TRUE, 1)

\* close_forum_topic returned or raised for the next row of the scan: the
\* state is written, the rating message sent, and the loop goes on
sweep_close_reply(i) ==
    LET k == tasks[i]
        thread_id == CHOOSE t \in k.rows : \A x \in k.rows : t <= x
    IN
    /\ k.pc = "sweep"
    /\ UNCHANGED <<paymentVars, support_msg_id_to_origin, user_id_to_thread_id, user_topics, topics>>
    /\ \E close_ok \in BOOLEAN :
         LET k1 == IF close_ok THEN k
                   ELSE [k EXCEPT !.close_failed = @ \cup {thread_id}]
             k2 == [Prompted(CloseWrite(k1, thread_id), thread_id)
                        EXCEPT !.rows = @ \ {thread_id}]
         IN
         /\ thread_states' =
                db_upsert_thread_state(thread_states, thread_id, "closed", TRUE)
         /\ tasks' = SetTask(i, IF k2.rows = {} THEN TaskDone(k2) ELSE k2)

\* the posts of the bot in the support chat, and the thread each is in (the
\* notice of a failed creation goes to the chat outside the threads)
Posts == UNION {{<<j, kind>> : kind \in tasks[j].posted} : j \in HandlerSlots}

ThreadOfPost(msg) ==
    IF msg[2] = "create_failed" THEN NoThread ELSE tasks[msg[1]].thread

\* what an operator's message can be a reply to, with the thread it is in
ReplyTargets ==
    {[msg |-> m, thread |-> ThreadOfPost(m)] : m \in Posts}
        \cup {[msg |-> m, thread |-> t] : m \in {NoMsg, OtherMsg},
                                          t \in DOMAIN thread_states \cup {NoThread}}

\* a drop only of what is outside the support chat
DroppedOutsideChat(in_support_chat, msg, origin) == ~in_support_chat

\* the early returns of handle_owner_reply
Dropped(in_support_chat, msg, origin) ==
    ~in_support_chat \/ msg = NoMsg \/ origin = NoOrigin

\* A message of an operator: outside the support chat, or not a reply, or a
\* reply to a message the index does not hold, it is dropped; otherwise the
\* activity of its thread is touched and it is copied to the origin chat as
\* a reply to the origin message. ref is the replied id the handler read.
handle_owner_reply(i, target, in_support_chat) ==
    LET origin == GetOrigin(support_msg_id_to_origin, target.msg)
        k == [IdleTask EXCEPT !.kind = "reply",
                              !.ref = IF in_support_chat THEN target.msg ELSE NoMsg,
                              !.thread = target.thread]
    IN
    /\ TaskCanStart(i)
    /\ UNCHANGED <<paymentVars, support_msg_id_to_origin, user_id_to_thread_id, user_topics, topics>>
    /\ IF Dropped(in_support_chat, target.msg, origin)
       THEN /\ tasks' = SetTask(i, TaskDone(k))
            /\ UNCHANGED thread_states
       ELSE /\ thread_states' = IF target.thread # NoThread
                                THEN db_touch_activity(thread_states, target.thread)
                                ELSE thread_states
            /\ tasks' = SetTask(i, TaskDone([k EXCEPT !.to = origin]))

\* ARCHIVE_AFTER_HOURS pass without activity on an active thread (the age of
\* a closed thread is never read: every write of "active" sets last_activity)
TimePasses(thread_id) ==
    /\ thread_id \in DOMAIN thread_states
    /\ ~thread_states[thread_id].stale
    /\ thread_states[thread_id].status = "active"
    /\ thread_states' = [thread_states EXCEPT ![thread_id].stale = TRUE]
    /\ UNCHANGED <<paymentVars, support_msg_id_to_origin, user_id_to_thread_id, user_topics, topics, tasks>>

\* the process is restarted while no handler is between its reads and writes
\* of the router tables: the in-memory maps are empty, the database stays, and
\* the handlers that were posting are gone
Restart ==
    /\ \A i \in DOMAIN tasks : ~TaskInFlight(tasks[i]) \/ InRelay(tasks[i])
    /\ \/ \E u \in Clients : user_id_to_thread_id[u] # NoThread
       \/ support_msg_id_to_origin # EmptyIndex
    /\ user_id_to_thread_id' = [u \in Clients |-> NoThread]
    /\ support_msg_id_to_origin' = EmptyIndex
    /\ tasks' = [i \in DOMAIN tasks |->
                    IF InRelay(tasks[i]) THEN TaskDone(tasks[i]) ELSE tasks[i]]
    /\ UNCHANGED <<paymentVars, user_topics, thread_states, topics>>

\* --------------------------------------------------------- specification
Env ==
    \/ \E t \in Payers, u \in Uuids : verify_otp(t, u)
    \/ \E t \in Payers : create_payment(t)
    \/ \E t \in Payers : create_cryptomus_payment(t)
    \/ \E t \in Payers : create_stars_payment(t)
    \/ \E o \in OrderIds : GatewayAdvance(o)
    \/ BackendFlip

Replies ==
    \/ \E i \in Slots : bank_status_reply(i)
    \/ \E i \in Slots : bank_deposit_reply(i)
    \/ \E i \in Slots : bank_status2_reply(i)
    \/ \E i \in Slots : cryptomus_info_reply(i)
    \/ \E i \in Slots : get_user_reply(i)
    \/ \E i \in Slots : update_reply(i)

\* Any caller names any order id at any entry point.
Next ==
    \/ Env
    \/ \E i \in Slots, o \in OrderIds, c \in Users : check_payment_status(i, o, c)
    \/ \E i \in Slots, o \in OrderIds, c \in Users : payment_return(i, o, c)
    \/ \E i \in Slots, o \in OrderIds, c \in Users :
          check_cryptomus_payment_status(i, o, c)
    \/ \E i \in Slots, o \in OrderIds, c \in Users \cup {NoUser},
          currency \in {"XTR", "USD"}, total_amount \in {Amount * 100, Amount} :
          handle_pre_checkout_query(i, o, c, currency, total_amount)
    \/ \E i \in Slots, o \in OrderIds, c \in Users \cup {NoUser} :
          handle_successful_payment(i, o, c)
    \/ Replies

Spec == Init /\ [][Next]_vars

\* The owner of an order reconciles it, from any entry point, any number of
\* times at once.
NextRace ==
    \/ Env
    \/ \E i \in Slots, o \in DOMAIN orders :
          check_payment_status(i, o, orders[o].telegram_id)
    \/ \E i \in Slots, o \in DOMAIN orders : payment_return(i, o, orders[o].telegram_id)
    \/ \E i \in Slots, o \in DOMAIN orders :
          check_cryptomus_payment_status(i, o, orders[o].telegram_id)
    \/ \E i \in Slots, o \in DOMAIN orders :
          handle_successful_payment(i, o, orders[o].telegram_id)
    \/ Replies

SpecRace == InitRace /\ [][NextRace]_vars

\* The owner of an order reconciles it again and again, one request after
\* the other.
NoneInFlight == \A k \in Slots : ~InFlight(attempts[k])

NextSeq ==
    \/ Env
    \/ /\ NoneInFlight
       /\ \E i \in Slots, o \in DOMAIN orders :
             check_payment_status(i, o, orders[o].telegram_id)
    \/ /\ NoneInFlight
       /\ \E i \in Slots, o \in DOMAIN orders :
             payment_return(i, o, orders[o].telegram_id)
    \/ /\ NoneInFlight
       /\ \E i \in Slots, o \in DOMAIN orders :
             check_cryptomus_payment_status(i, o, orders[o].telegram_id)
    \/ /\ NoneInFlight
       /\ \E i \in Slots, o \in DOMAIN orders :
             handle_successful_payment(i, o, orders[o].telegram_id)
    \/ Replies

SpecSeq == InitSeq /\ [][NextSeq]_vars

\* Reconciliation of an order whose subject the backend already knows.
NextExpiry ==
    \/ Env
    \/ \E i \in Slots, o \in DOMAIN orders :
          check_payment_status(i, o, orders[o].telegram_id)
    \/ \E i \in Slots, o \in DOMAIN orders : payment_return(i, o, orders[o].telegram_id)
    \/ \E i \in Slots, o \in DOMAIN orders :
          check_cryptomus_payment_status(i, o, orders[o].telegram_id)
    \/ Replies

SpecExpiry == InitExpiry /\ [][NextExpiry]_vars

\* Two orders of one subject: the payer pays both at the gateways and the
\* mini-app reconciles them, at any entry point and at the same time.
NextStack ==
    \/ \E o \in DOMAIN orders : GatewayAdvance(o)
    \/ \E i \in Slots, o \in DOMAIN orders :
          check_payment_status(i, o, orders[o].telegram_id)
    \/ \E i \in Slots, o \in DOMAIN orders : payment_return(i, o, orders[o].telegram_id)
    \/ \E i \in Slots, o \in DOMAIN orders :
          check_cryptomus_payment_status(i, o, orders[o].telegram_id)
    \/ Replies

SpecStack == InitStack /\ [][NextStack]_vars

\* The thread tables: no payment request is made; the handlers and the archive
\* job interleave at their awaits. A handler is followed up to its last write
\* of the router tables; what it posts after that is followed in SpecRelay.
InitThreads ==
    /\ orders = << >>
    /\ user_backend_data = [t \in Users |-> NoUuid]
    /\ gw = [o \in OrderIds |-> "new"]
    /\ subject = [u \in Uuids |-> [status |-> "DISABLED", expireAt |-> <<Now>>]]
    /\ backendUp = TRUE
    /\ attempts = << >>
    /\ RouterInitWith(MaxTasks)

NextThreads ==
    \/ \E i \in HandlerSlots, u \in Clients : handle_incoming_from_user(i, u)
    \/ \E i \in TaskSlots : create_forum_topic_reply(i)
    \/ \E i \in TaskSlots : greet_reply(i)
    \/ \E i \in TaskSlots : reopen_reply(i)
    \/ \E i \in HandlerSlots, t \in ThreadIds : close_pressed(i, t)
    \/ \E i \in TaskSlots : close_reply(i)
    \/ \E i \in TaskSlots : markup_reply(i)
    \/ \E i \in HandlerSlots, t \in ThreadIds : open_pressed(i, t)
    \/ \E i \in TaskSlots : open_reply(i)
    \/ archive_inactive_topics_job
    \/ sweep_close_reply(JobSlot)
    \/ \E t \in ThreadIds : TimePasses(t)
    \/ Restart

SpecThreads == InitThreads /\ [][NextThreads]_vars

\* The user->thread map against its table: as SpecThreads without the archive
\* job and the "open" button, and with a store whose write of the row can
\* raise.
NextStore ==
    \/ \E i \in HandlerSlots, u \in Clients : handle_incoming_from_user(i, u)
    \/ \E i \in TaskSlots : create_forum_topic_reply_any(i)
    \/ \E i \in TaskSlots : greet_reply(i)
    \/ \E i \in TaskSlots : reopen_reply(i)
    \/ \E i \in HandlerSlots, t \in ThreadIds : close_pressed(i, t)
    \/ \E i \in TaskSlots : close_reply(i)
    \/ \E i \in TaskSlots : markup_reply(i)
    \/ Restart

SpecStore == InitThreads /\ [][NextStore]_vars

\* The archive job under every configuration, next to user messages, replies
\* of operators and the "open" button. A user message is followed to the
\* greeting of its topic, or to the reopening of it.
ArchiveHours == {0, 1}

NextSweep ==
    \/ \E i \in HandlerSlots, u \in Clients : handle_incoming_from_user(i, u)
    \/ \E i \in TaskSlots : create_forum_topic_reply(i)
    \/ \E i \in TaskSlots : greet_reply(i)
    \/ \E i \in TaskSlots : reopen_reply(i)
    \/ \E i \in HandlerSlots, target \in ReplyTargets, in_support_chat \in BOOLEAN :
          handle_owner_reply(i, target, in_support_chat)
    \/ \E i \in HandlerSlots, t \in ThreadIds : open_pressed(i, t)
    \/ \E i \in TaskSlots : open_reply(i)
    \/ \E forum_mode \in BOOLEAN, archive_after_hours \in ArchiveHours :
          archive_job_configured(forum_mode, archive_after_hours)
    \/ sweep_close_reply(JobSlot)
    \/ \E t \in ThreadIds : TimePasses(t)

SpecSweep == InitThreads /\ [][NextSweep]_vars

\* The relay: user messages are followed to their last post, operators close
\* threads by hand and answer in the support chat, the process restarts. The
\* archive job and the "open" button are left to SpecThreads.
NextRelay ==
    \/ \E i \in HandlerSlots, u \in Clients : handle_incoming_from_user(i, u)
    \/ \E i \in TaskSlots : create_forum_topic_reply(i)
    \/ \E i \in TaskSlots : greet_reply(i)
    \/ \E i \in TaskSlots : notify_reply(i)
    \/ \E i \in TaskSlots : reopen_reply(i)
    \/ \E i \in TaskSlots : header_reply(i)
    \/ \E i \in TaskSlots : copy_reply(i)
    \/ \E i \in TaskSlots : forward_reply(i)
    \/ \E i \in TaskSlots : note_reply(i)
    \/ \E i \in HandlerSlots, t \in ThreadIds : close_pressed(i, t)
    \/ \E i \in TaskSlots : close_reply(i)
    \/ \E i \in TaskSlots : markup_reply(i)
    \/ \E i \in HandlerSlots, target \in ReplyTargets, in_support_chat \in BOOLEAN :
          handle_owner_reply(i, target, in_support_chat)
    \/ \E t \in ThreadIds : TimePasses(t)
    \/ Restart

SpecRelay == InitThreads /\ [][NextRelay]_vars


\* ================================================================ claims
HttpEps == {"poll", "return", "cpoll"}

SuccessStatuses == {"PAID"} \cup FINAL_SUCCESS_STATUSES

\* update_user_subscription calls issued for order o
UpdateCalls(o) ==
    Cardinality({i \in Slots : attempts[i].oid = o
                               /\ attempts[i].upd \in {"sent", "failed", "ok"}})

\* the backend has applied the entitlement of order o
Entitled(o) == \E i \in Slots : attempts[i].oid = o /\ attempts[i].upd = "ok"

\* finished attempts that observed success for o from an HTTP entry point,
\* overlapped another attempt of o and never saw the backend down
RacedReconciles(o) ==
    {i \in Slots : /\ attempts[i].pc = "done"
                   /\ attempts[i].oid = o
                   /\ attempts[i].ep \in HttpEps
                   /\ attempts[i].is_paid
                   /\ attempts[i].outcome \in {"applied", "skipped"}
                   /\ attempts[i].raced
                   /\ ~attempts[i].down_seen}

\* C1: when two or more reconcile attempts of a successfully paid order run
\* concurrently (here: with a healthy backend), the backend update is called
\* exactly once, one attempt applies and the others skip.
C1_ConcurrentExactlyOnce ==
    \A o \in DOMAIN orders :
        LET R == RacedReconciles(o) IN
        Cardinality(R) >= 2 =>
            /\ UpdateCalls(o) = 1
            /\ Cardinality({i \in R : attempts[i].outcome = "applied"}) = 1

\* C2: a success confirmation that arrives after an earlier one for the same
\* order has been handled to the end (the ledger already shows the success
\* status and nothing overlapped) skips without calling the backend, and the
\* order has had exactly one backend update.
C2_SecondConfirmationSkips ==
    \A i \in Slots :
        LET a == attempts[i] IN
        (/\ a.pc = "done"
         /\ a.is_paid
         /\ a.outcome # "rejected"
         /\ ~a.raced
         /\ a.payment_order.status \in SuccessStatuses)
        => (a.outcome = "skipped" /\ a.upd = "none" /\ UpdateCalls(a.oid) = 1)

\* C3: subscription_updated is true for an order only if a backend update
\* for that order has reported success.
C3_FlagOnlyAfterBackendSuccess ==
    \A o \in DOMAIN orders : orders[o].subscription_updated => Entitled(o)

\* C4: once a reconcile of a paid order has failed at the backend, a later
\* reconcile of that order that runs while the backend is healthy leaves the
\* entitlement applied.
C4_RetryAppliesEntitlement ==
    \A i, j \in Slots :
        LET f == attempts[i]
            a == attempts[j]
        IN  (/\ i # j
             /\ f.pc = "done" /\ f.upd \in {"lookup_failed", "failed"}
             /\ a.pc = "done" /\ a.oid = f.oid /\ a.ep \in HttpEps
             /\ a.is_paid /\ a.outcome \in {"applied", "skipped"}
             /\ ~a.raced /\ ~a.down_seen
             /\ a.payment_order.status \in SuccessStatuses)
            => Entitled(a.oid)

\* A request that has nothing to act on did nothing: it is over, rejected, and
\* has made no gateway call, no backend call and no ledger write.
NoSideEffect(a) ==
    /\ a.pc = "done"
    /\ a.outcome = "rejected"
    /\ a.gw_calls = 0
    /\ a.upd = "none"
    /\ ~a.wrote
    /\ ~a.marked

\* the order exists and belongs to another user than the caller
NotOwner(a) ==
    /\ a.payment_order.found
    /\ a.caller \in Users
    /\ a.payment_order.telegram_id # a.caller

\* C5: a request for an order whose recorded telegram_id differs from the
\* caller's id is rejected in the step that receives it, at every entry
\* point, and that step changes neither ledger, gateway nor backend.
C5_NotOwnerRejected ==
    [][\A i \in Slots :
          (attempts[i].pc = "idle" /\ attempts'[i].pc # "idle" /\ NotOwner(attempts'[i]))
          => (/\ NoSideEffect(attempts'[i])
              /\ UNCHANGED <<orders, gw, subject, user_backend_data>>)]_vars

C5_Witness ==
    \E i \in Slots :
        /\ attempts[i].pc = "done"
        /\ attempts[i].ep = "return"
        /\ NotOwner(attempts[i])
        /\ attempts[i].outcome = "rejected"
        /\ attempts[i].resp = NotOwnerResponse("return")

\* C6: no attempt writes the ledger or calls the backend for an order unless
\* it compared the caller with the order's owner and they were equal.
C6_OwnerComparedBeforeActing ==
    \A i \in Slots :
        LET a == attempts[i] IN
        (a.wrote \/ a.upd # "none" \/ a.marked)
        => (a.payment_order.found /\ a.caller = a.payment_order.telegram_id)

\* C7: an attempt that finds the order's uuid different from the uuid linked
\* to the caller has written nothing to the ledger and called no backend.
C7_UuidMismatchNoSideEffect ==
    \A i \in Slots :
        attempts[i].uuid_check = "fail"
        => (~attempts[i].wrote /\ attempts[i].upd = "none" /\ ~attempts[i].marked)

\* What an entry point answers from its early checks ("" when they pass).
EarlyResponse(ep, payment_order, c) ==
    IF ~OrderFound(payment_order) THEN NotFoundResponse(ep)
    ELSE IF ep \in {"stars", "precheckout"}
    THEN (IF ~StarsOwnerOk(payment_order, c) THEN NotOwnerResponse(ep) ELSE "")
    ELSE (IF ~OwnerMatches(payment_order, c) THEN NotOwnerResponse(ep) ELSE "")

\* C8: for every entry point and caller, the answer for an order of another
\* user equals the answer for an order that does not exist.
C8_ExistenceNotLeaked ==
    \A ep \in HttpEps \cup {"stars", "precheckout"}, c \in Users, o \in DOMAIN orders :
        orders[o].telegram_id # c
        => EarlyResponse(ep, orders[o], c) = EarlyResponse(ep, NoOrder, c)

\* C9: a request that names an order id absent from the ledger is rejected in
\* the step that receives it, at every entry point, and that step changes
\* neither ledger, gateway nor backend.
C9_UnknownOrderRejected ==
    [][\A i \in Slots :
          (attempts[i].pc = "idle" /\ attempts'[i].pc # "idle"
           /\ ~attempts'[i].payment_order.found)
          => (/\ NoSideEffect(attempts'[i])
              /\ UNCHANGED <<orders, gw, subject, user_backend_data>>)]_vars

C9_Witness ==
    \E i \in Slots :
        /\ attempts[i].pc = "done"
        /\ attempts[i].ep = "poll"
        /\ ~attempts[i].payment_order.found
        /\ attempts[i].oid \notin DOMAIN orders
        /\ attempts[i].outcome = "rejected"

\* C10: a bank status check whose last observed status is the pre-authorized
\* one does not treat the order as paid: no backend call, no mark.
C10_PreAuthIsNotPaid ==
    \A i \in Slots :
        LET a == attempts[i] IN
        (a.ep \in {"poll", "return"} /\ a.wrote
         /\ a.status_code = ORDER_STATUS_PRE_AUTH)
        => (~a.is_paid /\ a.upd = "none" /\ ~a.marked)

\* C11: a bank status check that observes the pre-authorized status issues the
\* capture call before it writes the ledger; when the capture succeeds it
\* queries the status again, still before the ledger write; and the capture
\* call is issued for no other observed status.
C11_CaptureThenRequery ==
    [][\A i \in Slots :
          LET a == attempts[i]
              b == attempts'[i]
          IN  /\ (a.pc = "status" /\ b.status_code = ORDER_STATUS_PRE_AUTH)
                 => (/\ b.pc = "deposit"
                     /\ b.gw_calls = a.gw_calls + 1
                     /\ ~b.wrote
                     /\ UNCHANGED orders)
              /\ (a.pc # "deposit" /\ b.pc = "deposit")
                 => (a.pc = "status" /\ b.status_code = ORDER_STATUS_PRE_AUTH)
              /\ (a.pc = "deposit" /\ b.pc # "deposit" /\ gw' # gw)
                 => (/\ b.pc = "status2"
                     /\ b.gw_calls = a.gw_calls + 1
                     /\ ~b.wrote
                     /\ UNCHANGED orders)
              /\ (a.pc # "status2" /\ b.pc = "status2") => a.pc = "deposit"]_vars

C11_Witness ==
    \E i \in Slots :
        /\ attempts[i].pc = "done"
        /\ attempts[i].ep \in {"poll", "return"}
        /\ attempts[i].gw_calls = 3
        /\ attempts[i].status_code = ORDER_STATUS_SUCCESS
        /\ attempts[i].wrote

\* the last status the attempt observed before its ledger write is not a
\* success status: not the settled one at the bank, not a final paid one at
\* Cryptomus
NotSuccessObserved(a) ==
    /\ a.ep \in HttpEps
    /\ a.wrote
    /\ IF is_crypto_payment(a.payment_order)
       THEN ~a.is_paid
       ELSE a.status_code # ORDER_STATUS_SUCCESS

SuccessObserved(a) ==
    /\ a.ep \in HttpEps
    /\ a.wrote
    /\ IF is_crypto_payment(a.payment_order)
       THEN a.is_paid
       ELSE a.status_code = ORDER_STATUS_SUCCESS

\* C12: a reconcile that observes a status other than success makes no backend
\* update and does not mark the order, and a later reconcile of the order that
\* observes success (backend healthy, nothing overlapping) leaves the
\* entitlement applied.
C12_NonSuccessLeavesOpen ==
    /\ \A i \in Slots :
          NotSuccessObserved(attempts[i])
          => (attempts[i].upd = "none" /\ ~attempts[i].marked)
    /\ \A i, j \in Slots :
          LET f == attempts[i]
              a == attempts[j]
          IN  (/\ i # j
               /\ f.pc = "done" /\ NotSuccessObserved(f)
               /\ a.pc = "done" /\ a.oid = f.oid /\ SuccessObserved(a)
               /\ a.payment_order.status # "PENDING"
               /\ a.outcome \in {"applied", "skipped"}
               /\ ~a.raced /\ ~a.down_seen)
              => Entitled(a.oid)

\* C13: no step of any handler takes subscription_updated of an order from
\* true back to false, whatever status updates polls, returns and callbacks
\* write afterwards; a flag that never goes back is raised at most once.
C13_FlagNeverCleared ==
    [][\A o \in DOMAIN orders :
          /\ o \in DOMAIN orders'
          /\ orders[o].subscription_updated => orders'[o].subscription_updated]_vars

C13_Witness ==
    \E i \in Slots :
        /\ attempts[i].payment_order.subscription_updated
        /\ attempts[i].wrote
        /\ orders[attempts[i].oid].subscription_updated
        /\ orders[attempts[i].oid].raw # attempts[i].payment_order.raw

\* The expiry the rule of the claim gives for a subject as the backend
\* reported it.
ExpectedExpiry(user_data, plan_days) ==
    IF user_data.status = "ACTIVE" /\ user_data.expireAt # NoExpiry
    THEN user_data.expireAt[1] + plan_days
    ELSE Now + plan_days

C15_OneCreatePerUser ==
    \A i \in TaskSlots, j \in TaskSlots :
        (/\ i # j
         /\ tasks[i].kind = "message"
         /\ tasks[j].kind = "message"
         /\ tasks[i].user = tasks[j].user
         /\ tasks[i].raced
         /\ tasks[j].raced)
        => /\ ~(tasks[i].called_create /\ tasks[j].called_create)
           /\ (tasks[i].result # NoThread /\ tasks[j].result # NoThread)
                 => tasks[i].result = tasks[j].result

\* C16: a call of ensure_forum_topic_for_user made when the user's thread is
\* already recorded in user_topics makes no create_forum_topic call and
\* returns the recorded thread: after a close or an archive, after a restart
\* that empties the in-memory map, and when the read of the table fails.
C16_RecordedChannelIsReused ==
    \A i \in TaskSlots :
        (tasks[i].kind = "message" /\ tasks[i].recorded # NoThread)
        => /\ ~tasks[i].called_create
           /\ tasks[i].pc = "done" => tasks[i].result = tasks[i].recorded

\* C17: in every state every thread whose row says archived is closed, also
\* while manual closes, reopens, user messages and the archive job interleave.
C17_ArchivedImpliesClosed ==
    \A t \in DOMAIN thread_states :
        thread_states[t].archived => thread_states[t].status = "closed"

\* a manual close and the archive job both wrote the same thread, which is
\* archived
C17_Witness ==
    \E i \in TaskSlots, j \in TaskSlots, t \in DOMAIN thread_states :
        /\ tasks[i].kind = "close"
        /\ tasks[j].kind = "sweep"
        /\ t \in tasks[i].closed
        /\ t \in tasks[j].closed
        /\ t \in tasks[i].again \cup tasks[j].again
        /\ thread_states[t].archived

\* C18: the rating message is sent once for each passage of a thread from
\* active to closed and archived: a close that finds the thread closed
\* already (pressed again, or after the archive job closed it in between)
\* sends no rating message.
C18_OnePromptPerTransition ==
    \A i \in TaskSlots : tasks[i].prompted \cap tasks[i].again = {}

\* C19: the archive job writes closed and archived only to a thread that, at
\* the moment of the write, is still active and still stale.
C19_SweepOnlyStaleActive ==
    tasks[JobSlot].fresh = {} /\ tasks[JobSlot].again = {}

\* C20: when close_forum_topic fails, in a manual close or in the archive job,
\* the thread is written closed and archived all the same.
C20_CloseFailureStillRecorded ==
    \A i \in TaskSlots : tasks[i].close_failed \subseteq tasks[i].closed

\* C21: whatever reopen_forum_topic answers, a reopen - the "open" button or
\* the reopen of a closed thread by a user message - leaves the thread
\* written active and not archived.
C21_ReopenFailureStillRecorded ==
    [][\A i \in TaskSlots :
          (tasks[i].pc \in {"opening", "reopen"} /\ tasks'[i].pc # tasks[i].pc)
          => LET row == thread_states'[tasks[i].thread] IN
             row.status = "active" /\ ~row.archived]_vars

\* ------------------------------------------------------- claims: the relay
RelayKinds == {"header", "copy", "forward", "text", "notice"}

C23_OriginRoundTrip ==
    [][\A i \in TaskSlots :
          LET new == (tasks'[i].posted \ tasks[i].posted) \cap RelayKinds IN
          new # {}
          => /\ \A kind \in new :
                  GetOrigin(support_msg_id_to_origin', <<i, kind>>) = OriginOf(tasks[i], i)
             /\ \A m \in DOMAIN support_msg_id_to_origin :
                  GetOrigin(support_msg_id_to_origin', m) = support_msg_id_to_origin[m]]_vars

\* the step in which handler i takes up a message of an operator
ReplyStep(i) == tasks[i].pc = "idle" /\ tasks'[i].kind = "reply"

\* C24: a reply of an operator to a message whose id the index holds is copied
\* to the chat the index gives, as a reply to the message id the index gives,
\* which are those of the inbound message the post relayed; and the thread
\* the reply is in is touched.
C24_ReplyGoesToOrigin ==
    [][\A i \in TaskSlots :
          LET n == tasks'[i] IN
          (ReplyStep(i) /\ n.ref \in DOMAIN support_msg_id_to_origin)
          => /\ n.to = support_msg_id_to_origin[n.ref]
             /\ n.to = OriginOf(tasks[n.ref[1]], n.ref[1])
             /\ n.thread # NoThread
                => thread_states' = [thread_states EXCEPT ![n.thread].stale = FALSE]]_vars

\* an operator answered the copy of a message in a thread that had gone
\* stale, and the answer went to the user as a reply to that message
C24_Witness ==
    \E i \in TaskSlots, j \in TaskSlots :
        /\ tasks[i].kind = "reply"
        /\ tasks[i].ref = <<j, "copy">>
        /\ tasks[i].to = <<tasks[j].user, j>>
        /\ tasks[i].thread = tasks[j].thread
        /\ ~thread_states[tasks[i].thread].stale

\* C25: a message of an operator that is not a reply in the support chat, or
\* replies to a message id the index does not hold, is dropped: nothing is
\* sent to a user and no table or map changes.
C25_UnknownReplyDropped ==
    [][\A i \in TaskSlots :
          LET n == tasks'[i] IN
          (ReplyStep(i) /\ n.ref \notin DOMAIN support_msg_id_to_origin)
          => /\ n.to = NoOrigin
             /\ UNCHANGED <<thread_states, support_msg_id_to_origin,
                            user_id_to_thread_id, user_topics>>]_vars

\* an operator answered a message the bot did not post, in a stale thread,
\* and the thread is still stale
C25_Witness ==
    \E i \in TaskSlots :
        /\ tasks[i].kind = "reply"
        /\ tasks[i].ref = OtherMsg
        /\ tasks[i].to = NoOrigin
        /\ tasks[i].thread # NoThread
        /\ thread_states[tasks[i].thread].stale

\* C26: an entry of the index is never lost: a message id the index holds is
\* held with the same origin after every step, a restart included.
C26_OriginsAreKept ==
    [][\A m \in DOMAIN support_msg_id_to_origin :
          GetOrigin(support_msg_id_to_origin', m) = support_msg_id_to_origin[m]]_vars

\* C27: when create_forum_topic fails for a user with no thread, the handler
\* does not end before the operators have been told in the support chat, so
\* the user's message does not vanish without a trace.
C27_CreationFailureNotSilent ==
    \A i \in TaskSlots :
        (tasks[i].pc = "done" /\ "create" \in tasks[i].failed)
        => "create_failed" \in tasks[i].posted

\* C28: the forward is tried only after the copy failed and the last resort
\* only after both failed; and every message that was routed to a thread ends
\* with its content, or a notice about it, posted in the thread.
C28_RelayDegradesInOrder ==
    \A i \in TaskSlots :
        LET k == tasks[i] IN
        /\ k.pc = "forward" => "copy" \in k.failed
        /\ k.pc = "note" => {"copy", "forward"} \subseteq k.failed
        /\ (k.kind = "message" /\ k.pc = "done" /\ k.result # NoThread)
           => k.posted \cap ContentKinds # {}

\* ---------------------------------------------- claims: stacking and Stars
\* C29: when the two orders of the subject have each been applied by a
\* reconcile whose backend update succeeded, in whatever order the requests
\* and the replies interleaved, the subject's expiry is the initial expiry
\* plus the plan_days of both orders.
C29_TwoOrdersStack ==
    \A i \in Slots, j \in Slots :
        (/\ attempts[i].pc = "done" /\ attempts[i].upd = "ok"
         /\ attempts[j].pc = "done" /\ attempts[j].upd = "ok"
         /\ attempts[i].oid # attempts[j].oid)
        => subject["s1"].expireAt =
              <<StackExpiry + orders[attempts[i].oid].plan_days
                            + orders[attempts[j].oid].plan_days>>

\* C30: a Stars successful-payment message for an order that exists, belongs
\* to the payer, is not applied yet and carries uuid and plan_days, received
\* while the backend answers, ends with the backend updated by that handler
\* and the order PAID with subscription_updated set; the handler does not
\* leave the order PAID and unapplied.
C30_StarsCallbackApplies ==
    [][\A i \in Slots :
          (/\ attempts[i].pc = "idle"
           /\ attempts'[i].pc = "done"
           /\ attempts'[i].ep = "stars"
           /\ OrderFound(attempts'[i].payment_order)
           /\ OwnerMatches(attempts'[i].payment_order, attempts'[i].caller)
           /\ ~attempts'[i].payment_order.subscription_updated
           /\ HasPlanData(attempts'[i].payment_order)
           /\ backendUp)
          => /\ attempts'[i].upd = "ok"
             /\ orders'[attempts'[i].oid].status = "PAID"
             /\ orders'[attempts'[i].oid].subscription_updated]_vars

\* ------------------------------------------- claims: ledger and classification
ReconcileEps == {"poll", "return", "cpoll", "stars"}

\* The attempt passed the existence and ownership checks and the gateway, or
\* the platform, told it the state of the payment.
Observed(a) ==
    /\ a.pc = "done"
    /\ a.ep \in ReconcileEps
    /\ OrderFound(a.payment_order)
    /\ OwnerMatches(a.payment_order, a.caller)
    /\ a.outcome # "error" \/ a.ep = "stars"

C32_ThreeWayClassification ==
    \A o \in DOMAIN orders :
        orders[o].raw.src = "bank"
        => /\ orders[o].status = "FAILED" => gw[o] = "fail"
           /\ orders[o].status = "PAID" => gw[o] = "success"

\* ------------------------------------------------- claims: router, continued
\* what handler i has posted in the thread so far for its inbound message
RelayPosts(k) == k.posted \cap RelayKinds

\* C33: after every post a handler makes while it routes one inbound message,
\* each of the posts it has made for that message (header, copy or forward,
\* text excerpt, could-not-display notice) has an entry in the index, and the
\* entries all give one and the same origin.
C33_AllPostsShareOrigin ==
    [][\A i \in TaskSlots :
          RelayPosts(tasks'[i]) # RelayPosts(tasks[i])
          => \E origin \in {OriginOf(tasks'[i], i)} :
                \A kind \in RelayPosts(tasks'[i]) :
                    /\ <<i, kind>> \in DOMAIN support_msg_id_to_origin'
                    /\ support_msg_id_to_origin'[<<i, kind>>] = origin]_vars

\* C34: the in-memory map holds for a user only what the table user_topics
\* holds: a user with an entry in the map has a row with the same thread id,
\* also after a write of the row that raised.
C34_MapIsOnlyAHint ==
    \A u \in Clients :
        user_id_to_thread_id[u] # NoThread => user_topics[u] = user_id_to_thread_id[u]

\* C37: when ensure_forum_topic_for_user is on its way to return None (it is
\* in its except branch), the call has recorded no thread: the topic it
\* created, if any, is neither in the map nor in user_topics for the user, and
\* has no row in thread_states.
C37_NoneMeansNothingRecorded ==
    \A i \in TaskSlots :
        tasks[i].pc = "notify"
        => LET t == tasks[i].thread
               u == tasks[i].user
           IN  \/ t = NoThread
               \/ /\ user_id_to_thread_id[u] # t
                  /\ user_topics[u] # t
                  /\ t \notin DOMAIN thread_states

\* ------------------------------------------------ claims: sweep and activity
\* C35: a run of the archive job under a configuration without forum mode or
\* with a threshold <= 0 selects nothing and writes nothing; any other run
\* selects exactly the threads that at the scan are active, not archived and
\* stale; and the run closes, and sends the rating message for, only threads
\* of that selection, leaving every other thread's row as it is.
C35_SweepClosesScanSelection ==
    [][LET j == tasks[JobSlot]
           n == tasks'[JobSlot]
       IN  /\ (~TaskInFlight(j) /\ n # j)
              => /\ n.rows = IF n.forum /\ n.hours > 0
                             THEN {t \in DOMAIN thread_states :
                                     /\ thread_states[t].status = "active"
                                     /\ ~thread_states[t].archived
                                     /\ thread_states[t].stale}
                             ELSE {}
                 /\ n.closed = {} /\ n.prompted = {}
                 /\ thread_states' = thread_states
           /\ (TaskInFlight(j) /\ n # j)
              => /\ n.rows \subseteq j.rows
                 /\ (n.closed \cup n.prompted) \subseteq (j.closed \cup j.prompted \cup j.rows)
                 /\ \A t \in DOMAIN thread_states \ j.rows :
                       thread_states'[t] = thread_states[t]]_vars

\* a run of the job in forum mode with a positive threshold closed a stale
\* thread and sent the rating message for it
C35_Witness ==
    /\ tasks[JobSlot].pc = "done"
    /\ tasks[JobSlot].forum /\ tasks[JobSlot].hours > 0
    /\ \E t \in tasks[JobSlot].closed \cap tasks[JobSlot].prompted :
          thread_states[t].status = "closed" /\ thread_states[t].archived

\* C36: while a thread is active its last_activity does not go back: no step
\* of a handler or of the job (a user message, a reply of an operator, a
\* reopen, an upsert) turns an active thread with recent activity into a
\* stale one; only the passing of time does.
C36_ActivityNeverGoesBack ==
    [][tasks' # tasks
       => \A t \in DOMAIN thread_states :
             (/\ thread_states[t].status = "active"
              /\ thread_states'[t].status = "active"
              /\ ~thread_states[t].stale)
             => ~thread_states'[t].stale]_vars

\* a thread that had gone stale and that the job had closed was opened again
\* by hand: it is active and its activity is recent
C36_Witness ==
    \E i \in TaskSlots :
        /\ tasks[i].kind = "open" /\ tasks[i].pc = "done"
        /\ tasks[i].thread \in tasks[JobSlot].closed
        /\ thread_states[tasks[i].thread].status = "active"
        /\ ~thread_states[tasks[i].thread].stale

\* C39: the handling of a message of an operator changes the status and the
\* archived flag of no thread and creates no row: a reply in a closed and
\* archived thread goes to the user and the thread stays closed and archived.
C39_ReplyKeepsThreadState ==
    [][\A i \in TaskSlots :
          ReplyStep(i)
          => /\ DOMAIN thread_states' = DOMAIN thread_states
             /\ \A t \in DOMAIN thread_states :
                   /\ thread_states'[t].status = thread_states[t].status
                   /\ thread_states'[t].archived = thread_states[t].archived]_vars

\* an operator answered the greeting of a topic that the job has closed: the
\* answer went to the user, the thread is closed and archived
C39_Witness ==
    \E i \in TaskSlots :
        /\ tasks[i].kind = "reply"
        /\ tasks[i].to # NoOrigin
        /\ tasks[i].thread \in tasks[JobSlot].closed
        /\ thread_states[tasks[i].thread].status = "closed"
        /\ thread_states[tasks[i].thread].archived

\* ---------------------------------------------------- claims: pre-checkout
\* C38: every pre-checkout query is answered, and it is answered ok=True only
\* for an order that is in the ledger and whose telegram_id is the id of the
\* user who sent the query.
C38_ApprovedOnlyForOwner ==
    \A i \in Slots :
        (attempts[i].pc = "done" /\ attempts[i].ep = "precheckout")
        => /\ attempts[i].resp # ""
           /\ attempts[i].resp = "ok=True"
              => /\ OrderFound(attempts[i].payment_order)
                 /\ OwnerMatches(attempts[i].payment_order, attempts[i].caller)

====
